---- MODULE Spec2Model ----
(***************************************************************************)
(* DeepXCheck (src/deepxcheck.py): one evaluator instance whose            *)
(* analyze_profile runs eight checks over a profile record, sums the       *)
(* flags' impacts into a clamped score and renders a mode-dependent        *)
(* report.  Text is modelled as sequences of one-character strings, so     *)
(* that lower(), title(), substring tests, slicing and the two re.sub      *)
(* calls are computed, not assumed.                                        *)
(***************************************************************************)
EXTENDS Integers, Sequences, FiniteSets, TLC

VARIABLES
    profile_data,   \* self.profile_data
    mode,           \* self.mode
    red_flags,      \* the list object self.red_flags is bound to
    score,          \* self.score
    pc,             \* pc[t]: where caller t stands inside analyze_profile
    arg,            \* arg[t]: the (profile_data, mode) arguments of caller t's call
    result,         \* result[t]: <<>> or <<report>>, the value caller t's call returned
    aliased,        \* callers whose returned report['red_flags'] is still the object self.red_flags
    prev            \* <<>> or <<[arg, report]>>: the previous completed call (sequential reuse)

vars == <<profile_data, mode, red_flags, score, pc, arg, result, aliased, prev>>

Threads == {1, 2}

-----------------------------------------------------------------------------
(* Python values.  t is the type tag; s holds the characters of a str or   *)
(* the items of a list; n holds an int (a bool is the int 0 or 1).         *)

StrV(s)  == [t |-> "str",  s |-> s,    n |-> 0]
IntV(n)  == [t |-> "int",  s |-> <<>>, n |-> n]
BoolV(b) == [t |-> "bool", s |-> <<>>, n |-> IF b THEN 1 ELSE 0]
ListV(s) == [t |-> "list", s |-> s,    n |-> 0]
NoneV    == [t |-> "none", s |-> <<>>, n |-> 0]

IsStr(v) == v.t = "str"
IsNum(v) == v.t \in {"int", "bool"}
IsSized(v) == v.t \in {"str", "list"}

\* bool(v)
Truthy(v) ==
    CASE v.t = "str"  -> v.s # <<>>
      [] v.t = "list" -> v.s # <<>>
      [] v.t = "int"  -> v.n # 0
      [] v.t = "bool" -> v.n # 0
      [] OTHER        -> FALSE

\* dict.get(key, default)
Get(pd, key, default) == IF key \in DOMAIN pd THEN pd[key] ELSE default

-----------------------------------------------------------------------------
(* Text operations.                                                        *)

UpperCase == <<"A", "B", "C", "D", "E", "F", "G", "H", "I", "J", "K", "L", "M", "N", "O", "P", "Q", "R", "S", "T", "U", "V", "W", "X", "Y", "Z">>
LowerCase == <<"a", "b", "c", "d", "e", "f", "g", "h", "i", "j", "k", "l", "m", "n", "o", "p", "q", "r", "s", "t", "u", "v", "w", "x", "y", "z">>
Digits    == <<"0", "1", "2", "3", "4", "5", "6", "7", "8", "9">>

Range(s) == {s[i] : i \in DOMAIN s}

IsUpper(c) == c \in Range(UpperCase)
IsLower(c) == c \in Range(LowerCase)
IsAlpha(c) == IsUpper(c) \/ IsLower(c)
\* \w of the re module on the characters modelled
IsWord(c) == IsAlpha(c) \/ c \in Range(Digits) \/ c = "_"

IndexIn(c, s) == CHOOSE i \in DOMAIN s : s[i] = c
LowerChar(c) == IF IsUpper(c) THEN LowerCase[IndexIn(c, UpperCase)] ELSE c
UpperChar(c) == IF IsLower(c) THEN UpperCase[IndexIn(c, LowerCase)] ELSE c

\* str.lower()
Lower(s) == [i \in DOMAIN s |-> LowerChar(s[i])]

\* str.title(): a letter after a non-letter is upper-cased, any other letter lower-cased
Title(s) ==
    [i \in DOMAIN s |->
        IF i = 1 \/ ~IsAlpha(s[IF i = 1 THEN 1 ELSE i - 1])
        THEN UpperChar(s[i]) ELSE LowerChar(s[i])]

\* sub in s, for str
Contains(s, sub) ==
    \E i \in 1..(Len(s) - Len(sub) + 1) : SubSeq(s, i, i + Len(sub) - 1) = sub

\* any(indicator in text for indicator in indicators)
AnyIn(indicators, text) == \E k \in DOMAIN indicators : Contains(text, indicators[k])

\* s[:k] and s[-k:] for k > 0
SlicePrefix(s, k) == SubSeq(s, 1, IF k < Len(s) THEN k ELSE Len(s))
SliceSuffix(s, k) == SubSeq(s, IF Len(s) - k + 1 > 1 THEN Len(s) - k + 1 ELSE 1, Len(s))

\* the end of the maximal run of \w characters starting at position i (i - 1 when none)
RECURSIVE WordRunEnd(_, _)
WordRunEnd(s, i) ==
    IF i <= Len(s) /\ IsWord(s[i]) THEN WordRunEnd(s, i + 1) ELSE i - 1

\* re.sub(prefix + r'\w+', repl, s): leftmost non-overlapping matches, each greedy
RECURSIVE SubFrom(_, _, _, _)
SubFrom(prefix, repl, s, i) ==
    IF i > Len(s) THEN <<>>
    ELSE LET j == i + Len(prefix)
             e == WordRunEnd(s, j)
         IN  IF j - 1 <= Len(s) /\ SubSeq(s, i, j - 1) = prefix /\ e >= j
             THEN repl \o SubFrom(prefix, repl, s, e + 1)
             ELSE <<s[i]>> \o SubFrom(prefix, repl, s, i + 1)

ReSub(prefix, repl, s) == SubFrom(prefix, repl, s, 1)

\* ", ".join(words)
RECURSIVE Join(_)
Join(words) ==
    IF words = <<>> THEN <<>>
    ELSE IF Len(words) = 1 THEN words[1]
    ELSE words[1] \o <<",", " ">> \o Join(Tail(words))

-----------------------------------------------------------------------------
(* The rule tables of the eight checks.                                    *)

us_indicators ==
    << <<"u", "s", "a">>, <<"u", "n", "i", "t", "e", "d", " ", "s", "t", "a", "t", "e", "s">>, <<"n", "e", "w", " ", "y", "o", "r", "k">>, <<"c", "a", "l", "i", "f", "o", "r", "n", "i", "a">>, <<"t", "e", "x", "a", "s">>,
       <<"p", "e", "n", "n", "s", "y", "l", "v", "a", "n", "i", "a">>, <<"m", "e", "m", "p", "h", "i", "s">>, <<"b", "o", "s", "t", "o", "n">>, <<"m", "a">>, <<"p", "a">>, <<"t", "n">> >>

nigeria_indicators == << <<"n", "i", "g", "e", "r", "i", "a">>, <<"n", "g">>, <<"l", "a", "g", "o", "s">>, <<"a", "b", "u", "j", "a">>, <<"i", "k", "e", "j", "a">> >>

telegram_patterns == << <<"t", ".", "m", "e", "/">>, <<"t", "e", "l", "e", "g", "r", "a", "m">>, <<"t", "g", ":", "/", "/">>, <<"j", "o", "i", "n", "c", "h", "a", "t", "/">> >>

scam_keywords ==
    << <<"b", "l", "e", "s", "s", "e", "d">>, <<"b", "l", "e", "s", "s", "i", "n", "g">>, <<"c", "a", "s", "h", "a", "p", "p">>, <<"p", "a", "y", "p", "a", "l">>, <<"a", "p", "p", "l", "e", " ", "p", "a", "y">>,
       <<"s", "e", "n", "d", " ", "m", "e">>, <<"d", "m", " ", "m", "e">>, <<"i", "n", "s", "t", "a", "n", "t", " ", "m", "o", "n", "e", "y">>, <<"g", "e", "t", " ", "p", "a", "i", "d">>,
       <<"n", "f", "a">>, <<"n", "o", "t", " ", "f", "i", "n", "a", "n", "c", "i", "a", "l", " ", "a", "d", "v", "i", "c", "e">>, <<"a", "l", "p", "h", "a">>, <<"s", "i", "g", "n", "a", "l">>,
       <<"p", "u", "m", "p">>, <<"m", "o", "o", "n">>, <<"1", "0", "0", "x">>, <<"f", "i", "n", "a", "n", "c", "i", "a", "l", " ", "f", "r", "e", "e", "d", "o", "m">> >>

max_score == 10

\* A red flag.  message holds the values the f-string interpolates, in order
\* (the fixed words around them are not modelled).
Flag(type, severity, message, score_impact) ==
    [type |-> type, severity |-> severity, message |-> message,
     score_impact |-> score_impact]

\* A check either returns with the flag list it leaves, or raises.
Returns(flags) == [ok |-> TRUE, flags |-> flags]
Raises(flags)  == [ok |-> FALSE, flags |-> flags]

-----------------------------------------------------------------------------
(* The eight checks: pd is self.profile_data, flags is self.red_flags.     *)

check_geo_inconsistency(pd, flags) ==
    LET dv == Get(pd, "declared_location", StrV(<<>>))
        tv == Get(pd, "technical_location", StrV(<<>>))
        declared == Lower(dv.s)
        tech_location == Lower(tv.s)
        is_declared_us == AnyIn(us_indicators, declared)
        is_tech_nigeria == AnyIn(nigeria_indicators, tech_location)
    IN  IF ~IsStr(dv) \/ ~IsStr(tv) THEN Raises(flags)      \* .lower() of a non-str
        ELSE IF declared = <<>> \/ tech_location = <<>> THEN Returns(flags)
        ELSE IF is_declared_us /\ is_tech_nigeria
             THEN Returns(Append(flags,
                    Flag("geo_inconsistency", "high",
                         <<StrV(Title(declared)), StrV(Title(tech_location))>>, 3)))
             ELSE Returns(flags)

\* '2024' in join_date or '2023' in join_date.  A list is searched for an equal
\* item; the items modelled are never these two strings.
JoinDateRecent(join_date) ==
    IF IsStr(join_date)
    THEN Contains(join_date.s, <<"2", "0", "2", "4">>) \/ Contains(join_date.s, <<"2", "0", "2", "3">>)
    ELSE FALSE

check_account_age(pd, flags) ==
    LET join_date == Get(pd, "join_date", StrV(<<>>))
        followers == Get(pd, "followers", IntV(0))
    IN  IF ~IsSized(join_date) THEN Raises(flags)           \* 'in' on a non-container
        ELSE IF ~JoinDateRecent(join_date) THEN Returns(flags)
        ELSE IF ~IsNum(followers) THEN Raises(flags)         \* followers > 1000
        ELSE IF followers.n > 1000
             THEN Returns(Append(flags,
                    Flag("suspicious_growth", "medium", <<join_date, followers>>, 2)))
             ELSE Returns(flags)

\* Mutant: the threshold is tested with > instead of >=.
check_name_changes_strict(pd, flags) ==
    LET name_changes == Get(pd, "name_changes", IntV(0))
        last_change == Get(pd, "last_name_change", StrV(<<>>))
    IN  IF ~IsNum(name_changes) THEN Raises(flags)
        ELSE IF name_changes.n > 3
             THEN Returns(Append(flags,
                    Flag("identity_instability", "medium", <<name_changes, last_change>>, 2)))
             ELSE Returns(flags)

check_name_changes(pd, flags) ==
    LET name_changes == Get(pd, "name_changes", IntV(0))
        last_change == Get(pd, "last_name_change", StrV(<<>>))
    IN  IF ~IsNum(name_changes) THEN Raises(flags)           \* name_changes >= 3
        ELSE IF name_changes.n >= 3
             THEN Returns(Append(flags,
                    Flag("identity_instability", "medium", <<name_changes, last_change>>, 2)))
             ELSE Returns(flags)

\* Mutant: the bio is read with pd['bio'], which raises when the key is missing.
check_telegram_links_required(pd, flags) ==
    LET bv == pd["bio"]
        bio == Lower(bv.s)
    IN  IF "bio" \notin DOMAIN pd THEN Raises(flags)
        ELSE IF ~IsStr(bv) THEN Raises(flags)
        ELSE IF AnyIn(telegram_patterns, bio)
             THEN Returns(Append(flags, Flag("telegram_promotion", "medium", <<>>, 2)))
             ELSE Returns(flags)

check_telegram_links(pd, flags) ==
    LET bv == Get(pd, "bio", StrV(<<>>))
        bio == Lower(bv.s)
    IN  IF ~IsStr(bv) THEN Raises(flags)                     \* .lower() of a non-str
        ELSE IF AnyIn(telegram_patterns, bio)
             THEN Returns(Append(flags, Flag("telegram_promotion", "medium", <<>>, 2)))
             ELSE Returns(flags)

check_suspicious_bio(pd, flags) ==
    LET bv == Get(pd, "bio", StrV(<<>>))
        bio == Lower(bv.s)
        Found(keyword) == Contains(bio, keyword)
        found_keywords == SelectSeq(scam_keywords, Found)
    IN  IF ~IsStr(bv) THEN Raises(flags)                     \* .lower() of a non-str
        ELSE IF found_keywords # <<>>
             THEN Returns(Append(flags,
                    Flag("suspicious_bio", "medium", <<StrV(Join(found_keywords))>>,
                         IF Len(found_keywords) < 3 THEN 1 ELSE 2)))
             ELSE Returns(flags)

\* following / followers > 10 for followers > 0: the quotient, written as its whole
\* part and remainder (exact at the magnitudes modelled), compared with 10.
RatioAbove10(following, followers) ==
    LET whole == following \div followers
        rest  == following % followers
    IN  whole > 10 \/ (whole = 10 /\ rest > 0)

check_follow_ratio(pd, flags) ==
    LET following == Get(pd, "following", IntV(0))
        followers == Get(pd, "followers", IntV(0))
    IN  IF ~IsNum(followers) THEN Raises(flags)              \* followers > 0
        ELSE IF ~(followers.n > 0) THEN Returns(flags)
        ELSE IF ~IsNum(following) THEN Raises(flags)         \* following / followers
        ELSE IF RatioAbove10(following.n, followers.n)
             THEN Returns(Append(flags,
                    Flag("unbalanced_ratio", "low", <<following, followers>>, 1)))
             ELSE Returns(flags)

check_coordination_patterns(pd, flags) ==
    LET shared_channels == Get(pd, "shared_channels", ListV(<<>>))
    IN  IF ~IsSized(shared_channels) THEN Raises(flags)      \* len() of an unsized value
        ELSE IF Len(shared_channels.s) >= 2
             THEN Returns(Append(flags,
                    Flag("coordinated_network", "high", <<IntV(Len(shared_channels.s))>>, 3)))
             ELSE Returns(flags)

check_like_behavior(pd, flags) ==
    LET like_fishing == Get(pd, "like_fishing", BoolV(FALSE))
    IN  IF Truthy(like_fishing)
        THEN Returns(Append(flags, Flag("like_fishing", "medium", <<>>, 2)))
        ELSE Returns(flags)

-----------------------------------------------------------------------------
(* Scoring.                                                                *)

RECURSIVE SumImpact(_)
SumImpact(flags) ==
    IF flags = <<>> THEN 0 ELSE flags[1].score_impact + SumImpact(Tail(flags))

Min(a, b) == IF a < b THEN a ELSE b

\* Mutant: the sum is stored without the clamp.
calculate_score_unclamped(flags) == SumImpact(flags)

calculate_score(flags) == Min(SumImpact(flags), max_score)

-----------------------------------------------------------------------------
(* Report generation.                                                      *)

version == "1.0"
analysis_date == "analysis_date"     \* set once, when the instance is constructed

ExpertDisclaimer ==
    "EXPERT MODE - IDENTIFYING DATA VISIBLE / This report contains identifying information. / Public sharing may have legal and ethical consequences. / Use responsibly for documentation purposes only."
EducationalDisclaimer == "Educational analysis - patterns anonymized"

RecAvoid    == "Avoid any financial interaction with this account"
RecReport   == "Report if promoting scams or manipulation"
RecGeo      == "Verify geographical claims before trust"
RecTelegram == "Be cautious of Telegram groups promising quick gains"
RecLikes    == "Likes can be bait - check profile before engaging"
RecNormal   == "Profile appears normal - maintain standard vigilance"

\* A profile view either is built, or building it raises.
Built(profile) == [ok |-> TRUE, profile |-> profile]
Failed(profile) == [ok |-> FALSE, profile |-> profile]

anonymize_profile(pd) ==
    LET a1 == IF "username" \in DOMAIN pd
              THEN [pd EXCEPT !["username"] = StrV(<<"@", "[", "R", "E", "D", "A", "C", "T", "E", "D", "]">>)] ELSE pd
        a2 == IF "display_name" \in DOMAIN a1
              THEN [a1 EXCEPT !["display_name"] = StrV(<<"[", "A", "N", "O", "N", "Y", "M", "I", "Z", "E", "D", "]">>)] ELSE a1
        scrubbed == ReSub(<<"t", ".", "m", "e", "/">>, <<"t", ".", "m", "e", "/", "[", "C", "H", "A", "N", "N", "E", "L", "]">>,
                          ReSub(<<"@">>, <<"@", "[", "U", "S", "E", "R", "]">>, a2["bio"].s))
    IN  IF "bio" \notin DOMAIN a2 THEN Built(a2)
        ELSE IF ~IsStr(a2["bio"]) THEN Failed(pd)            \* re.sub on a non-str
        ELSE Built([a2 EXCEPT !["bio"] = StrV(scrubbed)])

\* Mutant: the length threshold is 5 instead of 4.
partial_anonymize_above5(pd) ==
    LET username == pd["username"]
    IN  IF "username" \notin DOMAIN pd THEN Built(pd)
        ELSE IF ~IsSized(username) THEN Failed(pd)
        ELSE IF ~(Len(username.s) > 5) THEN Built(pd)
        ELSE IF ~IsStr(username) THEN Failed(pd)
        ELSE Built([pd EXCEPT !["username"] =
                      StrV(SlicePrefix(username.s, 2) \o <<"*", "*", "*">> \o SliceSuffix(username.s, 2))])

partial_anonymize(pd) ==
    LET username == pd["username"]
    IN  IF "username" \notin DOMAIN pd THEN Built(pd)
        ELSE IF ~IsSized(username) THEN Failed(pd)           \* len() of an unsized value
        ELSE IF ~(Len(username.s) > 4) THEN Built(pd)
        ELSE IF ~IsStr(username) THEN Failed(pd)             \* list + str
        ELSE Built([pd EXCEPT !["username"] =
                      StrV(SlicePrefix(username.s, 2) \o <<"*", "*", "*">> \o SliceSuffix(username.s, 2))])

\* Mutant: the top threshold is exclusive.
get_risk_level_exclusive(sc) ==
    IF sc > 8 THEN "CRITICAL"
    ELSE IF sc >= 6 THEN "HIGH"
    ELSE IF sc >= 4 THEN "MEDIUM"
    ELSE IF sc >= 2 THEN "LOW"
    ELSE "MINIMAL"

get_risk_level(sc) ==
    IF sc >= 8 THEN "CRITICAL"
    ELSE IF sc >= 6 THEN "HIGH"
    ELSE IF sc >= 4 THEN "MEDIUM"
    ELSE IF sc >= 2 THEN "LOW"
    ELSE "MINIMAL"

HasType(flags, type) == \E i \in DOMAIN flags : flags[i].type = type

\* Mutant: the two warnings need a score above 6.
generate_recommendations_above6(sc, flags) ==
    LET r1 == IF sc > 6 THEN <<RecAvoid, RecReport>> ELSE <<>>
        r2 == IF HasType(flags, "geo_inconsistency") THEN Append(r1, RecGeo) ELSE r1
        r3 == IF HasType(flags, "telegram_promotion") THEN Append(r2, RecTelegram) ELSE r2
        r4 == IF HasType(flags, "like_fishing") THEN Append(r3, RecLikes) ELSE r3
    IN  IF Len(r4) = 0 THEN <<RecNormal>> ELSE r4

generate_recommendations(sc, flags) ==
    LET r1 == IF sc >= 6 THEN <<RecAvoid, RecReport>> ELSE <<>>
        r2 == IF HasType(flags, "geo_inconsistency") THEN Append(r1, RecGeo) ELSE r1
        r3 == IF HasType(flags, "telegram_promotion") THEN Append(r2, RecTelegram) ELSE r2
        r4 == IF HasType(flags, "like_fishing") THEN Append(r3, RecLikes) ELSE r3
    IN  IF Len(r4) = 0 THEN <<RecNormal>> ELSE r4

report_disclaimer(m) == IF m = "expert" THEN ExpertDisclaimer ELSE EducationalDisclaimer

\* Mutant: every mode but expert and investigation is anonymized.
profile_display_anonymize_unknown(m, pd) ==
    IF m = "expert" THEN Built(pd)
    ELSE IF m = "investigation" THEN partial_anonymize(pd)
    ELSE anonymize_profile(pd)

profile_display(m, pd) ==
    IF m = "discovery" THEN anonymize_profile(pd)
    ELSE IF m = "investigation" THEN partial_anonymize(pd)
    ELSE Built(pd)

\* The report _generate_report returns from the instance fields, or a raise.
generate_report(m, pd, sc, flags) ==
    LET view == profile_display(m, pd)
    IN  [ok |-> view.ok,
         report |->
           [meta |-> [tool |-> "DeepXCheck", version |-> version, mode |-> m,
                      analysis_date |-> analysis_date,
                      disclaimer |-> report_disclaimer(m)],
            risk_assessment |-> [score |-> sc, level |-> get_risk_level(sc),
                                 red_flags_count |-> Len(flags)],
            profile |-> view.profile,
            red_flags |-> flags,
            recommendations |-> generate_recommendations(sc, flags)]]

-----------------------------------------------------------------------------
(* analyze_profile as one computation on a fresh instance: the eight       *)
(* checks in order from an empty flag list, the score, the report.         *)

\* A check that raises ends the call: the checks after it do not run.
RunChecks(pd) ==
    LET c1 == check_geo_inconsistency(pd, <<>>)
        c2 == IF c1.ok THEN check_account_age(pd, c1.flags) ELSE c1
        c3 == IF c2.ok THEN check_name_changes(pd, c2.flags) ELSE c2
        c4 == IF c3.ok THEN check_telegram_links(pd, c3.flags) ELSE c3
        c5 == IF c4.ok THEN check_suspicious_bio(pd, c4.flags) ELSE c4
        c6 == IF c5.ok THEN check_follow_ratio(pd, c5.flags) ELSE c5
        c7 == IF c6.ok THEN check_coordination_patterns(pd, c6.flags) ELSE c6
    IN  IF c7.ok THEN check_like_behavior(pd, c7.flags) ELSE c7

FreshReport(pd, m) ==
    LET c == RunChecks(pd)
        g == generate_report(m, pd, calculate_score(c.flags), c.flags)
    IN  IF c.ok /\ g.ok THEN <<g.report>> ELSE <<>>

-----------------------------------------------------------------------------
(* The profile records and modes the callers supply.                       *)

Absent == [t |-> "absent", s |-> <<>>, n |-> 0]

\* The dict holding the keys of f that are not marked absent.
Record(f) == [k \in {x \in DOMAIN f : f[x] # Absent} |-> f[k]]

Modes == {"discovery", "investigation", "expert", "DISCOVERY"}

\* The example profile of the source.
ExampleFields ==
    [username           |-> StrV(<<"@", "T", "e", "s", "t", "U", "s", "e", "r">>),
     display_name       |-> StrV(<<"T", "e", "s", "t">>),
     bio                |-> StrV(<<"F", "o", "l", "l", "o", "w", " ", "m", "e", " ", "o", "n", " ", "t", ".", "m", "e", "/", "t", "e", "s", "t", " ", "f", "o", "r", " ", "s", "i", "g", "n", "a", "l", "s", "!">>),
     declared_location  |-> StrV(<<"N", "e", "w", " ", "Y", "o", "r", "k", ",", " ", "U", "S", "A">>),
     technical_location |-> StrV(<<"N", "i", "g", "e", "r", "i", "a">>),
     join_date          |-> StrV(<<"N", "o", "v", "e", "m", "b", "e", "r", " ", "2", "0", "2", "4">>),
     name_changes       |-> IntV(0),
     last_name_change   |-> Absent,
     following          |-> IntV(10),
     followers          |-> IntV(100),
     shared_channels    |-> ListV(<<"t.me/test">>),
     like_fishing       |-> BoolV(TRUE)]

Keys == DOMAIN ExampleFields

BioChoices ==
    { <<>>, <<"J", "o", "i", "n", " ", "t", ".", "m", "e", "/", "x">>, <<"D", "M", " ", "m", "e">>, <<"t", "g", ":", "/", "/", "x", " ", "s", "i", "g", "n", "a", "l">>, <<"m", "o", "o", "n", " ", "p", "u", "m", "p", " ", "1", "0", "0", "x">>,
      <<"T", "e", "l", "e", "g", "r", "a", "m", " ", "a", "l", "p", "h", "a", " ", "p", "u", "m", "p", " ", "m", "o", "o", "n">> }

\* Every combination of the eight checks firing or not.
GridRecords ==
    { Record([ExampleFields EXCEPT
                !["declared_location"] = StrV(d),
                !["join_date"] = StrV(j),
                !["followers"] = IntV(1001),
                !["following"] = IntV(fg),
                !["name_changes"] = IntV(nc),
                !["last_name_change"] = StrV(<<"M", "a", "y">>),
                !["bio"] = StrV(b),
                !["shared_channels"] = ListV(ch),
                !["like_fishing"] = BoolV(lf)]) :
        d \in {<<"A", "u", "s", "t", "i", "n", ",", " ", "T", "e", "x", "a", "s">>, <<"P", "e", "r", "u">>}, j \in {<<"N", "o", "v", " ", "2", "0", "2", "4">>, <<"J", "a", "n", " ", "2", "0", "2", "2">>},
        fg \in {10010, 10011}, nc \in {2, 3}, b \in BioChoices,
        ch \in {<<"c1">>, <<"c1", "c2">>}, lf \in BOOLEAN }

\* Records on and next to the triggers' boundaries, and with keys missing.
EdgeRecords ==
    { Record(ExampleFields),
      Record([k \in Keys |-> Absent]),
      Record([ExampleFields EXCEPT !["technical_location"] = StrV(<<"U", "K">>)]),
      Record([ExampleFields EXCEPT !["declared_location"] = StrV(<<>>)]),
      Record([ExampleFields EXCEPT !["declared_location"] = Absent]),
      Record([ExampleFields EXCEPT !["declared_location"] = StrV(<<"R", "o", "m", "a">>),
                                   !["technical_location"] = StrV(<<"A", "B", "U", "J", "A">>)]),
      Record([ExampleFields EXCEPT !["followers"] = IntV(1000)]),
      Record([ExampleFields EXCEPT !["followers"] = IntV(1001), !["join_date"] = StrV(<<"2", "0", "2", "3", "-", "0", "1">>)]),
      Record([ExampleFields EXCEPT !["followers"] = IntV(0), !["following"] = IntV(50)]),
      Record([ExampleFields EXCEPT !["followers"] = Absent, !["following"] = IntV(50)]),
      Record([ExampleFields EXCEPT !["followers"] = IntV(1), !["following"] = IntV(10)]),
      Record([ExampleFields EXCEPT !["followers"] = IntV(1), !["following"] = IntV(11)]),
      Record([ExampleFields EXCEPT !["followers"] = IntV(3), !["following"] = IntV(31)]),
      Record([ExampleFields EXCEPT !["followers"] = IntV(3), !["following"] = Absent]),
      Record([ExampleFields EXCEPT !["name_changes"] = IntV(4)]),
      Record([ExampleFields EXCEPT !["name_changes"] = Absent]),
      Record([ExampleFields EXCEPT !["shared_channels"] = ListV(<<>>)]),
      Record([ExampleFields EXCEPT !["shared_channels"] = ListV(<<"c1", "c2", "c3">>)]),
      Record([ExampleFields EXCEPT !["shared_channels"] = Absent]),
      Record([ExampleFields EXCEPT !["like_fishing"] = BoolV(FALSE)]),
      Record([ExampleFields EXCEPT !["like_fishing"] = Absent]),
      Record([ExampleFields EXCEPT !["like_fishing"] = StrV(<<"y", "e", "s">>)]),
      Record([ExampleFields EXCEPT !["bio"] = Absent]),
      Record([ExampleFields EXCEPT !["bio"] = StrV(<<"B", "l", "e", "s", "s", "e", "d", "!", " ", "N", "F", "A", ",", " ", "j", "u", "s", "t", " ", "a", "l", "p", "h", "a">>)]),
      Record([ExampleFields EXCEPT !["join_date"] = Absent]) }

Records == GridRecords \cup EdgeRecords

Calls(records, modes) == [profile : records, mode : modes]

-----------------------------------------------------------------------------
(* The instance and its callers.                                           *)

\* One caller holding a call, and every caller holding one.
OneCaller(calls) == {[t \in Threads |-> c] : c \in calls}
AllCallers(calls) == [Threads -> calls]

\* The instance as __init__ leaves it; the callers in waiting hold the calls
\* args gives them, not yet entered.
InitWith(args, waiting) ==
    /\ profile_data = <<>>
    /\ mode = "unset"
    /\ red_flags = <<>>
    /\ score = 0
    /\ arg \in args
    /\ pc = [t \in Threads |-> IF t \in waiting THEN "entry" ELSE "idle"]
    /\ result = [t \in Threads |-> <<>>]
    /\ aliased = {}
    /\ prev = <<>>

\* list.append on the object self.red_flags names: every returned report whose
\* red_flags is that same object shows the appended flag too.
SeenBy(holders, flags) ==
    [u \in Threads |->
        IF u \in holders /\ result[u] # <<>>
        THEN <<[result[u][1] EXCEPT !.red_flags = flags]>> ELSE result[u]]

\* Mutant: the accumulators are not reset at entry.
analyze_profile_entry_without_reset(t) ==
    /\ pc[t] = "entry"
    /\ profile_data' = arg[t].profile
    /\ mode' = arg[t].mode
    /\ pc' = [pc EXCEPT ![t] = "geo"]
    /\ UNCHANGED <<red_flags, score, aliased, arg, result, prev>>

\* analyze_profile, lines 31-34: the arguments are stored and the accumulators reset.
analyze_profile_entry(t) ==
    /\ pc[t] = "entry"
    /\ profile_data' = arg[t].profile
    /\ mode' = arg[t].mode
    /\ red_flags' = <<>>
    /\ score' = 0
    /\ aliased' = {}          \* self.red_flags now names a new list object
    /\ pc' = [pc EXCEPT ![t] = "geo"]
    /\ UNCHANGED <<arg, result, prev>>

\* One check of caller t: it returns and the next check is due, or it raises and
\* the call is abandoned with the instance left as it is.
CheckStep(t, here, next, r) ==
    /\ pc[t] = here
    /\ IF r.ok
       THEN /\ red_flags' = r.flags
            /\ result' = SeenBy(aliased, r.flags)
            /\ pc' = [pc EXCEPT ![t] = next]
       ELSE /\ pc' = [pc EXCEPT ![t] = "fault"]
            /\ UNCHANGED <<red_flags, result>>
    /\ UNCHANGED <<profile_data, mode, score, arg, aliased, prev>>

run_check_geo_inconsistency(t) ==
    CheckStep(t, "geo", "age", check_geo_inconsistency(profile_data, red_flags))
run_check_account_age(t) ==
    CheckStep(t, "age", "names", check_account_age(profile_data, red_flags))
run_check_name_changes(t) ==
    CheckStep(t, "names", "telegram", check_name_changes(profile_data, red_flags))
run_check_telegram_links(t) ==
    CheckStep(t, "telegram", "bio", check_telegram_links(profile_data, red_flags))
run_check_suspicious_bio(t) ==
    CheckStep(t, "bio", "ratio", check_suspicious_bio(profile_data, red_flags))
run_check_follow_ratio(t) ==
    CheckStep(t, "ratio", "coord", check_follow_ratio(profile_data, red_flags))
run_check_coordination_patterns(t) ==
    CheckStep(t, "coord", "like", check_coordination_patterns(profile_data, red_flags))
run_check_like_behavior(t) ==
    CheckStep(t, "like", "score", check_like_behavior(profile_data, red_flags))

run_calculate_score(t) ==
    /\ pc[t] = "score"
    /\ score' = calculate_score(red_flags)
    /\ pc' = [pc EXCEPT ![t] = "report"]
    /\ UNCHANGED <<profile_data, mode, red_flags, arg, result, aliased, prev>>

\* return self._generate_report(): the report's red_flags is the list object itself.
run_generate_report(t) ==
    /\ pc[t] = "report"
    /\ LET g == generate_report(mode, profile_data, score, red_flags)
       IN  IF g.ok
           THEN /\ result' = [result EXCEPT ![t] = <<g.report>>]
                /\ aliased' = aliased \cup {t}
                /\ pc' = [pc EXCEPT ![t] = "done"]
           ELSE /\ pc' = [pc EXCEPT ![t] = "fault"]
                /\ UNCHANGED <<result, aliased>>
    /\ UNCHANGED <<profile_data, mode, red_flags, score, arg, prev>>

\* The steps of one analyze_profile call by caller t.
Steps(t) ==
    \/ analyze_profile_entry(t)
    \/ run_check_geo_inconsistency(t)
    \/ run_check_account_age(t)
    \/ run_check_name_changes(t)
    \/ run_check_telegram_links(t)
    \/ run_check_suspicious_bio(t)
    \/ run_check_follow_ratio(t)
    \/ run_check_coordination_patterns(t)
    \/ run_check_like_behavior(t)
    \/ run_calculate_score(t)
    \/ run_generate_report(t)

\* The caller, after a call returned or raised, calls again on the same instance.
Invoke(t, calls) ==
    /\ pc[t] \in {"idle", "done", "fault"}
    /\ \E c \in calls : arg' = [arg EXCEPT ![t] = c]
    /\ prev' = IF pc[t] = "done" THEN <<[arg |-> arg[t], report |-> result[t][1]]>>
               ELSE IF pc[t] = "fault" THEN <<>> ELSE prev
    /\ result' = [result EXCEPT ![t] = <<>>]
    /\ aliased' = aliased \ {t}
    /\ pc' = [pc EXCEPT ![t] = "entry"]
    /\ UNCHANGED <<profile_data, mode, red_flags, score>>

-----------------------------------------------------------------------------
(* Spec: one caller, one call, every record and mode.                      *)

Init == InitWith(OneCaller(Calls(Records, Modes)), {1})
Next == Steps(1)
Spec == Init /\ [][Next]_vars

Returned(t) == pc[t] = "done"
Report(t) == result[t][1]
Given(t) == arg[t].profile
FlagTypes(flags) == [i \in DOMAIN flags |-> flags[i].type]

-----------------------------------------------------------------------------
(* Properties of the returned report, for every record and mode.           *)

ImpactTotal(flags) ==
    LET RECURSIVE Upto(_)
        Upto(k) == IF k = 0 THEN 0 ELSE Upto(k - 1) + flags[k].score_impact
    IN  Upto(Len(flags))

\* C1: the score of the returned report is min(10, sum of score_impact over the
\* report's red_flags): an integer in 0..10, and exactly 10 when the raw sum is 17
\* (all eight checks firing).
C1_ScoreIsClampedSum ==
    Returned(1) =>
        LET raw == ImpactTotal(Report(1).red_flags)
            sc  == Report(1).risk_assessment.score
        IN  /\ sc = (IF raw > 10 THEN 10 ELSE raw)
            /\ sc \in 0..10
            /\ raw = 17 => sc = 10

C1_Witness_AllEightClampTo10 ==
    /\ Returned(1)
    /\ Len(Report(1).red_flags) = 8
    /\ ImpactTotal(Report(1).red_flags) = 17
    /\ Report(1).risk_assessment.score = 10

DetectionOrder ==
    << "geo_inconsistency", "suspicious_growth", "identity_instability",
       "telegram_promotion", "suspicious_bio", "unbalanced_ratio",
       "coordinated_network", "like_fishing" >>

\* The trigger of each flag type as the rule table states it, on the record given
\* (a missing field counting as empty, zero or false).
Trigger(type, pd) ==
    LET declared  == Lower(Get(pd, "declared_location", StrV(<<>>)).s)
        technical == Lower(Get(pd, "technical_location", StrV(<<>>)).s)
        join_date == Get(pd, "join_date", StrV(<<>>)).s
        bio       == Lower(Get(pd, "bio", StrV(<<>>)).s)
        followers == Get(pd, "followers", IntV(0)).n
        following == Get(pd, "following", IntV(0)).n
    IN  CASE type = "geo_inconsistency" ->
                /\ declared # <<>> /\ technical # <<>>
                /\ \E i \in DOMAIN us_indicators : Contains(declared, us_indicators[i])
                /\ \E i \in DOMAIN nigeria_indicators : Contains(technical, nigeria_indicators[i])
          [] type = "suspicious_growth" ->
                /\ Contains(join_date, <<"2", "0", "2", "3">>) \/ Contains(join_date, <<"2", "0", "2", "4">>)
                /\ followers > 1000
          [] type = "identity_instability" -> Get(pd, "name_changes", IntV(0)).n >= 3
          [] type = "telegram_promotion" ->
                \E i \in DOMAIN telegram_patterns : Contains(bio, telegram_patterns[i])
          [] type = "suspicious_bio" ->
                \E i \in DOMAIN scam_keywords : Contains(bio, scam_keywords[i])
          [] type = "unbalanced_ratio" -> followers > 0 /\ following > 10 * followers
          [] type = "coordinated_network" ->
                Len(Get(pd, "shared_channels", ListV(<<>>)).s) >= 2
          [] type = "like_fishing" -> Truthy(Get(pd, "like_fishing", BoolV(FALSE)))

\* C2: the report's red_flags are the eight checks filtered by their triggers, in
\* the fixed detection order: each type at most once, present iff its trigger
\* holds, and red_flags_count is their number (0..8).
C2_FlagsAreTriggeredChecksInOrder ==
    Returned(1) =>
        LET Fires(type) == Trigger(type, Given(1))
            types == FlagTypes(Report(1).red_flags)
        IN  /\ types = SelectSeq(DetectionOrder, Fires)
            /\ \A i, j \in DOMAIN types : types[i] = types[j] => i = j
            /\ Report(1).risk_assessment.red_flags_count = Len(types)
            /\ Len(types) \in 0..8

C2_Witness_AllEightInOrder ==
    /\ Returned(1)
    /\ FlagTypes(Report(1).red_flags) = DetectionOrder

LevelRank(level) ==
    CASE level = "MINIMAL" -> 0 [] level = "LOW" -> 1 [] level = "MEDIUM" -> 2
      [] level = "HIGH" -> 3 [] level = "CRITICAL" -> 4 [] OTHER -> -1

\* C7: the risk level is decided by the clamped score alone: 8..10 CRITICAL,
\* 6..7 HIGH, 4..5 MEDIUM, 2..3 LOW, 0..1 MINIMAL, and it never decreases as the
\* score grows.
C7_RiskLevelByScore ==
    Returned(1) =>
        LET sc == Report(1).risk_assessment.score
            level == Report(1).risk_assessment.level
        IN  /\ sc \in 8..10 => level = "CRITICAL"
            /\ sc \in 6..7  => level = "HIGH"
            /\ sc \in 4..5  => level = "MEDIUM"
            /\ sc \in 2..3  => level = "LOW"
            /\ sc \in 0..1  => level = "MINIMAL"
            /\ LevelRank(level) \in 0..4
            /\ \A a \in 0..sc : LevelRank(get_risk_level(a)) <= LevelRank(level)

\* The scenario of the example profile: 3 + 2 + 1 + 2 = 8, CRITICAL.
C7_Witness_Score8Critical ==
    /\ Returned(1)
    /\ Given(1) = Record(ExampleFields)
    /\ Report(1).risk_assessment.score = 8
    /\ Report(1).risk_assessment.level = "CRITICAL"

\* C8: the recommendations are, in this order, the two warnings iff score >= 6,
\* the location advice iff geo_inconsistency is flagged, the telegram advice iff
\* telegram_promotion is flagged, the likes advice iff like_fishing is flagged;
\* the 'appears normal' string stands alone exactly when none of these applies,
\* so it never comes with another string nor with level HIGH or CRITICAL.
C8_RecommendationsFixedOrder ==
    Returned(1) =>
        LET rep == Report(1)
            sc == rep.risk_assessment.score
            Has(type) == \E i \in DOMAIN rep.red_flags : rep.red_flags[i].type = type
            listed == (IF sc >= 6 THEN <<RecAvoid, RecReport>> ELSE <<>>)
                      \o (IF Has("geo_inconsistency") THEN <<RecGeo>> ELSE <<>>)
                      \o (IF Has("telegram_promotion") THEN <<RecTelegram>> ELSE <<>>)
                      \o (IF Has("like_fishing") THEN <<RecLikes>> ELSE <<>>)
            recs == rep.recommendations
            normal == sc < 6 /\ ~Has("geo_inconsistency") /\ ~Has("telegram_promotion")
                      /\ ~Has("like_fishing")
        IN  /\ recs = (IF normal THEN <<RecNormal>> ELSE listed)
            /\ recs # <<>>
            /\ (\E i \in DOMAIN recs : recs[i] = RecNormal) =>
                   /\ recs = <<RecNormal>>
                   /\ rep.risk_assessment.level \notin {"HIGH", "CRITICAL"}

\* Flags detected in the order geo, ..., telegram, ..., like with the warnings first.
C8_Witness_AllFiveStrings ==
    /\ Returned(1)
    /\ Report(1).recommendations = <<RecAvoid, RecReport, RecGeo, RecTelegram, RecLikes>>
    /\ Report(1).risk_assessment.score = 7

\* C10: the profile view is anonymized only for mode 'discovery' and masked only
\* for 'investigation'; for 'expert' and any other mode string it is the record
\* itself.  The extended disclaimer is used iff the mode is 'expert', so an
\* unrecognized mode returns the full record under the single-line disclaimer.
C10_ModeDispatch ==
    Returned(1) =>
        LET rep == Report(1)
            m == arg[1].mode
        IN  /\ rep.meta.mode = m
            /\ m \notin {"discovery", "investigation"} => rep.profile = Given(1)
            /\ m = "discovery" => rep.profile = anonymize_profile(Given(1)).profile
            /\ m = "investigation" => rep.profile = partial_anonymize(Given(1)).profile
            /\ rep.meta.disclaimer = ExpertDisclaimer <=> m = "expert"
            /\ m # "expert" => rep.meta.disclaimer = EducationalDisclaimer

C10_Witness_UnknownModeFullRecord ==
    /\ Returned(1)
    /\ arg[1].mode = "DISCOVERY"
    /\ Report(1).profile = Given(1)
    /\ "username" \in DOMAIN Given(1) /\ "display_name" \in DOMAIN Given(1)
    /\ Report(1).profile["username"] = StrV(<<"@", "T", "e", "s", "t", "U", "s", "e", "r">>)
    /\ Report(1).meta.disclaimer = EducationalDisclaimer

-----------------------------------------------------------------------------
(* SpecSeq: one caller reusing the instance for call after call.           *)

AllEightFields ==
    [ExampleFields EXCEPT !["join_date"] = StrV(<<"N", "o", "v", " ", "2", "0", "2", "4">>),
                          !["followers"] = IntV(1001), !["following"] = IntV(10011),
                          !["name_changes"] = IntV(3),
                          !["bio"] = StrV(<<"T", "e", "l", "e", "g", "r", "a", "m", " ", "a", "l", "p", "h", "a", " ", "p", "u", "m", "p", " ", "m", "o", "o", "n">>),
                          !["shared_channels"] = ListV(<<"c1", "c2">>)]

SeqRecords ==
    { Record(ExampleFields),
      Record(AllEightFields),
      Record([k \in Keys |-> Absent]),
      Record([ExampleFields EXCEPT !["like_fishing"] = BoolV(FALSE), !["bio"] = StrV(<<"h", "i">>)]),
      Record([ExampleFields EXCEPT !["username"] = StrV(<<"b", "o", "b">>)]),
      Record([AllEightFields EXCEPT !["shared_channels"] = NoneV]),   \* raises in check 7
      Record([AllEightFields EXCEPT !["username"] = IntV(7)]) }       \* raises when masked

SeqCalls == Calls(SeqRecords, {"discovery", "investigation", "expert"})

InitSeq == InitWith(OneCaller(SeqCalls), {})
NextSeq == Invoke(1, SeqCalls) \/ Steps(1)
SpecSeq == InitSeq /\ [][NextSeq]_vars

\* C3: after any sequence of earlier calls on the instance, a call returns the
\* report a fresh instance returns for the same record and mode; two consecutive
\* calls with the same record and mode return equal reports; and the report of
\* the earlier call is not changed by the later one.
C3_SequentialReuseHistoryIndependent ==
    /\ Returned(1) => result[1] = FreshReport(Given(1), arg[1].mode)
    /\ (Returned(1) /\ prev # <<>> /\ prev[1].arg = arg[1]) => prev[1].report = Report(1)
    /\ prev # <<>> => <<prev[1].report>> = FreshReport(prev[1].arg.profile, prev[1].arg.mode)

\* A call with no flags returned right after a call that returned all eight.
C3_Witness_CleanAfterAllEight ==
    /\ Returned(1)
    /\ prev # <<>>
    /\ Len(prev[1].report.red_flags) = 8
    /\ prev[1].report.risk_assessment.score = 10
    /\ Report(1).red_flags = <<>>
    /\ Report(1).risk_assessment.score = 0

-----------------------------------------------------------------------------
(* SpecConc: two callers inside analyze_profile of one instance at once,   *)
(* interleaved step by step.                                               *)

ConcCalls ==
    { [profile |-> Record([k \in Keys |-> Absent]), mode |-> "expert"],
      [profile |-> Record(ExampleFields), mode |-> "discovery"],
      [profile |-> Record([ExampleFields EXCEPT !["username"] = StrV(<<"@", "O", "t", "h", "e", "r", "U", "s", "e", "r">>),
                                                !["like_fishing"] = BoolV(FALSE)]),
       mode |-> "investigation"] }

InitConc == InitWith(AllCallers(ConcCalls), Threads)
NextConc == \E t \in Threads : Steps(t)
SpecConc == InitConc /\ [][NextConc]_vars

\* C4: of two interleaved calls on one instance, each returns the report it would
\* return when run alone.
C4_ConcurrentCallsIsolated ==
    \A t \in Threads :
        Returned(t) => result[t] = FreshReport(Given(t), arg[t].mode)

-----------------------------------------------------------------------------
(* SpecAnon: the profile views of discovery and investigation mode, over   *)
(* usernames of two to MaxUserLen characters.                              *)

MaxUserLen == 6

UserNames ==
    { SubSeq(base, 1, n) : base \in {<<"@", "s", "c", "a", "m", "B", "o", "b", "4", "2", "x">>, <<"B", "o", "b", "_", "1", "2", "3", "4", "5", "6", "7">>}, n \in 2..MaxUserLen }

AnonRecords ==
    { Record([ExampleFields EXCEPT
                !["username"] = u, !["display_name"] = dn, !["bio"] = StrV(b)]) :
        u \in {StrV(s) : s \in UserNames} \cup {Absent},
        dn \in {StrV(<<"B", "o", "b">>), StrV(<<"D", "r", ".", " ", "W", "h", "o">>), Absent},
        b \in { <<>>, <<"D", "M", " ", "@", "s", "c", "a", "m", "B", "o", "b", "4", "2", "x", " ", "o", "r", " ", "t", ".", "m", "e", "/", "s", "c", "a", "m", "_", "c", "h", " ", "n", "o", "w">>, <<"B", "o", "b", " ", "h", "e", "r", "e", ",", " ", "a", "s", "k", " ", "f", "o", "r", " ", "B", "o", "b", "_", "1">>,
                <<"m", "a", "i", "l", " ", "m", "e", "@", "x", ".", "i", "o", ",", " ", "t", ".", "m", "e", "/", ",", " ", "@", " ", "t", ".", "m", "e", "/", "a", "/", "b", " ", "@", "B", "o">> } }

InitAnon == InitWith(OneCaller(Calls(AnonRecords, {"discovery", "investigation"})), {1})
SpecAnon == InitAnon /\ [][Next]_vars

StrFieldContains(pd, text) ==
    \E k \in DOMAIN pd : IsStr(pd[k]) /\ Contains(pd[k].s, text)

\* C5: in discovery mode, for a record with non-empty username and display_name,
\* no field of the profile view contains the original username or the original
\* display_name as a substring.
C5_DiscoveryViewHidesIdentity ==
    ( /\ Returned(1) /\ arg[1].mode = "discovery"
      /\ "username" \in DOMAIN Given(1) /\ Given(1)["username"].s # <<>>
      /\ "display_name" \in DOMAIN Given(1) /\ Given(1)["display_name"].s # <<>> )
    => /\ ~StrFieldContains(Report(1).profile, Given(1)["username"].s)
       /\ ~StrFieldContains(Report(1).profile, Given(1)["display_name"].s)

\* C6: in investigation mode the profile view is the record with only username
\* changed: up to 4 characters it is unchanged, from 5 characters on it is its
\* first two characters, '***', and its last two characters (7 characters).
C6_InvestigationMasksUsername ==
    (Returned(1) /\ arg[1].mode = "investigation") =>
        LET pd == Given(1)
            view == Report(1).profile
            u == pd["username"].s
            n == Len(u)
        IN  /\ DOMAIN view = DOMAIN pd
            /\ \A k \in DOMAIN pd \ {"username"} : view[k] = pd[k]
            /\ "username" \in DOMAIN pd =>
                 /\ n <= 4 => view["username"] = pd["username"]
                 /\ n >= 5 => /\ view["username"] =
                                   StrV(<<u[1], u[2], "*", "*", "*", u[n - 1], u[n]>>)
                              /\ Len(view["username"].s) = 7

C6_Witness_FiveCharactersMasked ==
    /\ Returned(1) /\ arg[1].mode = "investigation"
    /\ "username" \in DOMAIN Given(1)
    /\ Given(1)["username"] = StrV(<<"@", "s", "c", "a", "m">>)
    /\ Report(1).profile["username"] = StrV(<<"@", "s", "*", "*", "*", "a", "m">>)

-----------------------------------------------------------------------------
(* SpecTyped: records with keys missing and with values of other types.    *)

TypedFields == [ExampleFields EXCEPT !["last_name_change"] = StrV(<<"M", "a", "y">>)]

\* Records with at most two keys missing, or at most two keys present.
SparseRecords ==
    { Record([k \in Keys |-> IF k \in missing THEN Absent ELSE TypedFields[k]]) :
        missing \in {m \in SUBSET Keys : Cardinality(m) <= 2 \/ Cardinality(Keys \ m) <= 2} }

OtherValues == {NoneV, IntV(5), BoolV(TRUE), StrV(<<"1", "2">>), ListV(<<"c1", "c2", "c3", "c4", "c5">>)}

\* Records with one field holding a value of any type.
RetypedRecords ==
    { Record([TypedFields EXCEPT ![k] = v]) : k \in Keys, v \in OtherValues }

InitTyped ==
    InitWith(OneCaller(Calls(SparseRecords \cup RetypedRecords, Modes)), {1})
SpecTyped == InitTyped /\ [][Next]_vars

Raised(t) == pc[t] = "fault"

AbsentOr(pd, key, Is(_)) == key \notin DOMAIN pd \/ Is(pd[key])

NumericFieldsAreNumbers(pd) ==
    \A key \in {"followers", "following", "name_changes"} : AbsentOr(pd, key, IsNum)

TextFieldsAreText(pd) ==
    \A key \in {"bio", "declared_location", "technical_location", "join_date", "username"} :
        AbsentOr(pd, key, IsStr)

====
